---------------------------- MODULE Spec2Model ----------------------------
(***************************************************************************)
(* LogPulse: the durable dual-counter state store, the session recorder,   *)
(* its save() with the legacy-CSV migration guard, and clear_history, as   *)
(* implemented in src/src/logpulse/main.py (v0.2), together with the v0.1  *)
(* recorder of src/src/LogPulse/main.py, which is what produces            *)
(* legacy-schema files.                                                    *)
(*                                                                         *)
(* The file system is a map from paths of the logs/ directory to files; a  *)
(* file is a sequence of lines, a line being a header (its column names)   *)
(* or a row (a record of the columns it carries).  Timestamps and          *)
(* durations are environment data no modelled decision reads; rows do not  *)
(* carry them.                                                             *)
(***************************************************************************)
EXTENDS Integers, Sequences, FiniteSets, TLC

(***************************************************************************)
(* Bounds of the model.                                                    *)
(***************************************************************************)
MaxRuns == 3
MaxSessions == 2
MaxRows == 2

\* the variables of the calling program that hold a recorder
Recs == {"s1", "s2"}

Tags == {"alpha", "beta"}
Labels == {"task"}
FuncNames == {"task"}
ExcKinds == {"ValueError"}
NoExc == "None"
NoLabel == "None"

VARIABLES
    stateFile,   \* logs/.logpulse_state.json
    files,       \* the other files of logs/: path -> [ex, lines]
    recs,        \* the LogPulse (v0.2) instances the process holds
    legacy,      \* the LogPulse (v0.1) instance the process holds
    built,       \* history: the constructions since the counters were last cleared
    last         \* history: the last call, its inputs and what the caller saw

vars == <<stateFile, files, recs, legacy, built, last>>

(***************************************************************************)
(* dict helpers                                                            *)
(***************************************************************************)
EmptyMap == [t \in {} |-> 0]

Get(d, k, default) == IF k \in DOMAIN d THEN d[k] ELSE default

Put(d, k, v) == [x \in (DOMAIN d) \cup {k} |-> IF x = k THEN v ELSE d[x]]

Del(d, k) == [x \in (DOMAIN d) \ {k} |-> d[x]]

Range(s) == {s[i] : i \in 1..Len(s)}

(***************************************************************************)
(* Paths of logs/.  with_suffix replaces the extension of the file name.   *)
(***************************************************************************)
SharedStem == "perf_metrics"

Stems == Tags \cup {SharedStem}

CsvPath(stem) == [stem |-> stem, ext |-> "csv"]

with_suffix(path, ext) == [stem |-> path.stem, ext |-> ext]

BakExt == "v1.bak"

CsvPaths == {CsvPath(s) : s \in Stems}

BakPaths == {with_suffix(p, BakExt) : p \in CsvPaths}

Paths == CsvPaths \cup BakPaths

storage_path(session_tag, split_files) ==
    IF split_files THEN CsvPath(session_tag) ELSE CsvPath(SharedStem)

(***************************************************************************)
(* Files                                                                   *)
(***************************************************************************)
Absent == [ex |-> FALSE, lines |-> <<>>]

CurrentCols ==
    <<"global_run_id", "session_run_id", "session_tag", "timestamp", "label",
      "duration_sec", "status">>

LegacyCols == <<"run_id", "timestamp", "label", "duration_sec", "status">>

HeaderLine(cols) == [cols |-> cols]

IsHeader(line) == "cols" \in DOMAIN line

IsLegacyRow(line) == "run_id" \in DOMAIN line

IsCurrentRow(line) == "global_run_id" \in DOMAIN line

RowsOf(f) == SelectSeq(f.lines, LAMBDA l : ~IsHeader(l))

\* pd.DataFrame(records).columns: the keys of the records
columns(rows) ==
    IF rows = <<>> THEN <<>>
    ELSE IF IsLegacyRow(rows[1]) THEN LegacyCols ELSE CurrentCols

\* DataFrame.to_csv(path, mode="a", header=header): creates the file if needed
to_csv(fs, path, rows, header) ==
    [fs EXCEPT ![path] =
        [ex |-> TRUE,
         lines |-> fs[path].lines
                     \o (IF header THEN <<HeaderLine(columns(rows))>> ELSE <<>>)
                     \o rows]]

\* variant: the file is copied and its source is left in place
rename_copy(fs, from, to) == [fs EXCEPT ![to] = fs[from]]

\* Path.rename (POSIX): the target is replaced if it exists.  Where rename
\* refuses an existing target instead (Windows), the call raises: SaveFault.
rename(fs, from, to) == [fs EXCEPT ![to] = fs[from], ![from] = Absent]

unlink(fs, path) == [fs EXCEPT ![path] = Absent]

\* pd.read_csv(path, nrows=0).columns: the fields of the first line
read_columns(f) == IF IsHeader(f.lines[1]) THEN f.lines[1].cols ELSE <<>>

TotalRows ==
    LET paths == CsvPaths
        RECURSIVE FileSum(_)
        FileSum(S) == IF S = {} THEN 0
                      ELSE LET p == CHOOSE q \in S : TRUE
                           IN Len(RowsOf(files[p])) + FileSum(S \ {p})
        RECURSIVE RecSum(_)
        RecSum(S) == IF S = {} THEN 0
                     ELSE LET r == CHOOSE q \in S : TRUE
                          IN (IF recs[r].alive THEN Len(recs[r].records) ELSE 0)
                               + RecSum(S \ {r})
    IN FileSum(paths) + RecSum(Recs)
         + (IF legacy.alive THEN Len(legacy.records) ELSE 0)

(***************************************************************************)
(* Counter state store                                                     *)
(***************************************************************************)
default_state == [global_counter |-> 0, session_counters |-> EmptyMap]

NoStateFile == [kind |-> "absent"]

\* the contents .logpulse_state.json can have when _load_state opens it:
\*   absent       no file
\*   garbage      text json.load rejects (JSONDecodeError)
\*   array        valid JSON that is not an object: []
\*   legacy       the v0.1 layout: an object without "global_counter", holding
\*                "last_run_id" or not
\*   no_sessions  an object with "global_counter" and without "session_counters"
\*   current      the layout _save_state writes
LastRunIds == 0..2

StateFiles ==
    {NoStateFile, [kind |-> "garbage"], [kind |-> "array"], [kind |-> "legacy"]}
    \cup {[kind |-> "legacy", last_run_id |-> n] : n \in LastRunIds}
    \cup {[kind |-> "no_sessions", global_counter |-> n] : n \in LastRunIds}

\* LogPulse._load_state: the exception that leaves it; only JSONDecodeError and
\* IOError are caught, and a list has no .get
load_raises(sf) == IF sf.kind = "array" THEN "AttributeError" ELSE NoExc

\* variant: no migration of the v0.1 layout, "last_run_id" is ignored
load_state_unmigrated(sf) ==
    CASE sf.kind \in {"absent", "garbage", "legacy"} -> default_state
      [] sf.kind = "no_sessions" -> [global_counter |-> sf.global_counter]
      [] sf.kind = "current" ->
            [global_counter |-> sf.global_counter,
             session_counters |-> sf.session_counters]

\* LogPulse._load_state: the dict it returns, where it returns
load_state(sf) ==
    CASE sf.kind \in {"absent", "garbage"} -> default_state
      [] sf.kind = "legacy" ->
            [global_counter |-> Get(sf, "last_run_id", 0),
             session_counters |-> EmptyMap]
      [] sf.kind = "no_sessions" -> [global_counter |-> sf.global_counter]
      [] sf.kind = "current" ->
            [global_counter |-> sf.global_counter,
             session_counters |-> sf.session_counters]

\* LogPulse._save_state: json.dump of the dict as it is
save_state(state) ==
    IF "session_counters" \in DOMAIN state
    THEN [kind |-> "current",
          global_counter |-> state.global_counter,
          session_counters |-> state.session_counters]
    ELSE [kind |-> "no_sessions", global_counter |-> state.global_counter]

\* variant: the incremented global counter is returned but not persisted
get_next_run_ids_unsaved(sf, tag) ==
    LET state == load_state(sf)
        inventory == Get(state, "session_counters", EmptyMap)
        session_counters == Put(inventory, tag, Get(inventory, tag, 0) + 1)
    IN [file |-> save_state([global_counter |-> state.global_counter,
                             session_counters |-> session_counters]),
        global_run_id |-> state.global_counter + 1,
        session_run_id |-> session_counters[tag]]

\* variant: the session id is the count of the sessions of every tag
get_next_run_ids_untagged(sf, tag) ==
    LET state == load_state(sf)
        global_counter == Get(state, "global_counter", 0) + 1
        inventory == Get(state, "session_counters", EmptyMap)
        session_counters == Put(inventory, tag, global_counter)
    IN [file |-> save_state([global_counter |-> global_counter,
                             session_counters |-> session_counters]),
        global_run_id |-> global_counter,
        session_run_id |-> session_counters[tag]]

\* variant: the global id returned is the session counter of the tag
next_run_ids_per_tag(state, tag) ==
    LET global_counter == Get(state, "global_counter", 0) + 1
        inventory == Get(state, "session_counters", EmptyMap)
        session_counters == Put(inventory, tag, Get(inventory, tag, 0) + 1)
    IN [file |-> save_state([global_counter |-> global_counter,
                             session_counters |-> session_counters]),
        global_run_id |-> session_counters[tag],
        session_run_id |-> session_counters[tag]]

\* LogPulse._get_next_run_ids, lines 58-65: the increments of a loaded state
\* and the file _save_state writes for them
next_run_ids(state, tag) ==
    LET global_counter == Get(state, "global_counter", 0) + 1
        inventory == Get(state, "session_counters", EmptyMap)
        session_counters == Put(inventory, tag, Get(inventory, tag, 0) + 1)
    IN [file |-> save_state([global_counter |-> global_counter,
                             session_counters |-> session_counters]),
        global_run_id |-> global_counter,
        session_run_id |-> session_counters[tag]]

\* LogPulse._get_next_run_ids
get_next_run_ids(sf, tag) == next_run_ids(load_state(sf), tag)

(***************************************************************************)
(* Session recorder (v0.2)                                                 *)
(***************************************************************************)
NoRec == [alive |-> FALSE]

NoCall == [op |-> "none", r |-> "", thrown |-> NoExc, raised |-> NoExc]

Call(op, r, thrown, raised) ==
    [op |-> op, r |-> r, thrown |-> thrown, raised |-> raised]

\* a clear_history(session_only=False) that returned, with its delete_logs
\* and the paths it unlinked
ClearCall(r, delete_logs, unlinked) ==
    [op |-> "clear_global", r |-> r, thrown |-> NoExc, raised |-> NoExc,
     delete_logs |-> delete_logs, unlinked |-> unlinked]

\* a LogPulse(...) call with what it printed: notice is TRUE when the
\* fragmentation notice of __init__ went to the console
ConstructCall(r, raised, notice) ==
    [op |-> "construct", r |-> r, thrown |-> NoExc, raised |-> raised,
     notice |-> notice]

NoneBuilt == [total |-> 0, all |-> 0, tagged |-> [t \in Tags |-> 0]]

Init ==
    /\ stateFile = NoStateFile
    /\ files = [p \in Paths |-> Absent]
    /\ recs = [r \in Recs |-> NoRec]
    /\ legacy = NoRec
    /\ built = NoneBuilt
    /\ last = NoCall

\* LogPulse.__init__, lines 29-30: the exception that leaves the constructor
\* before any id is claimed; state["session_counters"] is a subscript
init_raises(sf) ==
    IF load_raises(sf) # NoExc THEN load_raises(sf)
    ELSE IF "session_counters" \notin DOMAIN load_state(sf) THEN "KeyError"
    ELSE NoExc

\* LogPulse.__init__, lines 29-34: the condition under which the notice
\* "Session ... has existing history, but current config saves to a new file"
\* is printed
fragmentation_notice(sf, fs, session_tag, split_files) ==
    /\ Get(load_state(sf).session_counters, session_tag, 0) > 0
    /\ ~fs[storage_path(session_tag, split_files)].ex

\* the instance LogPulse.__init__ leaves; uid is a history field that tells the
\* instances apart: the number of instances built up to this one
instance(session_tag, split_files, ids, uid) ==
    [alive |-> TRUE,
     uid |-> uid,
     session_tag |-> session_tag,
     storage_path |-> storage_path(session_tag, split_files),
     records |-> <<>>,
     global_run_id |-> ids.global_run_id,
     session_run_id |-> ids.session_run_id]

\* LogPulse.__init__: r = LogPulse(session_tag, split_files)
Construct(r, session_tag, split_files) ==
    IF init_raises(stateFile) # NoExc
    THEN /\ last' = ConstructCall(r, init_raises(stateFile), FALSE)
         /\ UNCHANGED <<stateFile, files, recs, legacy, built>>
    ELSE /\ LET ids == get_next_run_ids(stateFile, session_tag)
            IN /\ stateFile' = ids.file
               /\ recs' = [recs EXCEPT ![r] =
                             instance(session_tag, split_files, ids,
                                      built.total + 1)]
         /\ built' = [total |-> built.total + 1,
                       all |-> built.all + 1,
                       tagged |-> [built.tagged EXCEPT ![session_tag] = @ + 1]]
         /\ last' = ConstructCall(r, NoExc,
                                   fragmentation_notice(stateFile, files,
                                                        session_tag,
                                                        split_files))
         /\ UNCHANGED <<files, legacy>>

\* variant: the record takes its session id from the global id
exit_record_global(rec, label, exc_type) ==
    [uid |-> rec.uid,
     global_run_id |-> rec.global_run_id,
     session_run_id |-> rec.global_run_id,
     session_tag |-> rec.session_tag,
     label |-> label,
     status |-> IF exc_type = NoExc THEN "SUCCESS" ELSE "ERROR: " \o exc_type]

\* _MeasureContext.__exit__: the record appended to parent.records
exit_record(rec, label, exc_type) ==
    [uid |-> rec.uid,
     global_run_id |-> rec.global_run_id,
     session_run_id |-> rec.session_run_id,
     session_tag |-> rec.session_tag,
     label |-> label,
     status |-> IF exc_type = NoExc THEN "SUCCESS" ELSE "ERROR: " \o exc_type]

\* variant: __exit__ returns True
exit_suppresses_all(exc_type) == TRUE

\* _MeasureContext.__exit__: its return value, True would suppress the exception
exit_suppresses(exc_type) == FALSE

\* what the caller of a with-block sees once __exit__ has returned
Propagated(exc_type) ==
    IF exc_type # NoExc /\ exit_suppresses(exc_type) THEN NoExc ELSE exc_type

\* with r.measure(label): <block>, the block raising exc_type or completing
Measure(r, label, exc_type) ==
    /\ recs[r].alive
    /\ recs' = [recs EXCEPT ![r].records =
                    Append(@, exit_record(recs[r], label, exc_type))]
    /\ last' = Call("measure", r, exc_type, Propagated(exc_type))
    /\ UNCHANGED <<stateFile, files, legacy, built>>

\* LogPulse.timeit: label or func.__name__
timeit_label(label, func_name) == IF label = NoLabel THEN func_name ELSE label

\* a call of a function wrapped by r.timeit(label)
Timeit(r, label, func_name, exc_type) ==
    /\ recs[r].alive
    /\ recs' = [recs EXCEPT ![r].records =
                    Append(@, exit_record(recs[r], timeit_label(label, func_name),
                                          exc_type))]
    /\ last' = Call("timeit", r, exc_type, Propagated(exc_type))
    /\ UNCHANGED <<stateFile, files, legacy, built>>

\* r.get_summary(): a frame is computed from self.records and returned,
\* nothing is assigned
GetSummary(r) ==
    /\ recs[r].alive
    /\ last' = Call("get_summary", r, NoExc, NoExc)
    /\ UNCHANGED <<stateFile, files, recs, legacy, built>>

(***************************************************************************)
(* save() and the migration guard                                          *)
(***************************************************************************)
\* the test of save() for a v0.1 header
is_legacy_header(cols) ==
    "run_id" \in Range(cols) /\ "global_run_id" \notin Range(cols)

\* save(), the try block: fault names the call that raises, if one does
migrate(fs, path, fault) ==
    IF ~fs[path].ex THEN fs
    ELSE IF fault = "read_csv" \/ fs[path].lines = <<>> THEN fs
    ELSE IF is_legacy_header(read_columns(fs[path]))
         THEN IF fault = "rename" THEN fs
              ELSE rename(fs, path, with_suffix(path, BakExt))
         ELSE fs

\* variant: the header is written on every append
save_records_header(fs, rec, fault) ==
    to_csv(migrate(fs, rec.storage_path, fault), rec.storage_path, rec.records, TRUE)

\* save(), after the early return
save_records(fs, rec, fault) ==
    LET fs1 == migrate(fs, rec.storage_path, fault)
        header == ~fs1[rec.storage_path].ex
    IN to_csv(fs1, rec.storage_path, rec.records, header)

\* variant: the buffer is not cleared after the append
save_keeps_buffer(fs, rec, fault) ==
    IF rec.records = <<>> THEN [files |-> fs, records |-> rec.records]
    ELSE [files |-> save_records(fs, rec, fault), records |-> rec.records]

\* variant: no early return on an empty buffer
save_unguarded(fs, rec, fault) ==
    [files |-> save_records(fs, rec, fault), records |-> <<>>]

\* LogPulse.save: [files, records] after the call
save(fs, rec, fault) ==
    IF rec.records = <<>> THEN [files |-> fs, records |-> rec.records]
    ELSE [files |-> save_records(fs, rec, fault), records |-> <<>>]

\* r.save(), no call of the migration step failing
Save(r) ==
    /\ recs[r].alive
    /\ LET out == save(files, recs[r], "none")
       IN /\ files' = out.files
          /\ recs' = [recs EXCEPT ![r].records = out.records]
    /\ last' = Call("save", r, NoExc, NoExc)
    /\ UNCHANGED <<stateFile, legacy, built>>

\* r.save() where a call of the migration step raises: the header cannot be
\* read, or the legacy file cannot be renamed
SaveFault(r, fault) ==
    /\ recs[r].alive
    /\ recs[r].records # <<>>
    /\ files[recs[r].storage_path].ex
    /\ fault = "rename" => is_legacy_header(read_columns(files[recs[r].storage_path]))
    /\ LET out == save(files, recs[r], fault)
       IN /\ files' = out.files
          /\ recs' = [recs EXCEPT ![r].records = out.records]
    /\ last' = Call("save_fault", r, NoExc, NoExc)
    /\ UNCHANGED <<stateFile, legacy, built>>

(***************************************************************************)
(* clear_history                                                           *)
(***************************************************************************)
RECURSIVE unlink_all(_, _)
unlink_all(fs, S) ==
    IF S = {} THEN fs
    ELSE LET p == CHOOSE q \in S : TRUE
         IN unlink_all(IF fs[p].ex THEN unlink(fs, p) ELSE fs, S \ {p})

\* variant: the scoped clear sets the global counter back to 0
clear_session_rewind(sf, fs, rec, delete_logs) ==
    LET state == load_state(sf)
        inventory == Del(Get(state, "session_counters", EmptyMap), rec.session_tag)
    IN [state |-> IF "session_counters" \in DOMAIN state
                  THEN [global_counter |-> 0, session_counters |-> inventory]
                  ELSE state,
        files |-> IF delete_logs /\ fs[rec.storage_path].ex
                  THEN unlink(fs, rec.storage_path) ELSE fs]

\* variant: the scoped clear empties the whole inventory
clear_session_inventory(sf, fs, rec, delete_logs) ==
    [state |-> [load_state(sf) EXCEPT !.session_counters = EmptyMap],
     files |-> IF delete_logs /\ fs[rec.storage_path].ex
               THEN unlink(fs, rec.storage_path) ELSE fs]

\* variant: the scoped clear unlinks the storage file whatever delete_logs is
clear_session_unlink(sf, fs, rec, delete_logs) ==
    LET state == load_state(sf)
        inventory == Del(Get(state, "session_counters", EmptyMap), rec.session_tag)
    IN [state |-> [state EXCEPT !.session_counters = inventory],
        files |-> IF fs[rec.storage_path].ex
                  THEN unlink(fs, rec.storage_path) ELSE fs]

\* clear_history(session_only=True, delete_logs): [state, files]
clear_session(sf, fs, rec, delete_logs) ==
    LET state == load_state(sf)
        inventory == Del(Get(state, "session_counters", EmptyMap), rec.session_tag)
    IN [state |-> IF "session_counters" \in DOMAIN state
                  THEN [state EXCEPT !.session_counters = inventory]
                  ELSE state,
        files |-> IF delete_logs /\ fs[rec.storage_path].ex
                  THEN unlink(fs, rec.storage_path) ELSE fs]

\* variant: the global counter survives the reset
clear_global_keep(sf, fs, rec, delete_logs) ==
    [state |-> [global_counter |-> load_state(sf).global_counter,
                session_counters |-> EmptyMap],
     files |-> fs]

\* variant: the per-tag files are found by a scan of logs/
clear_global_scan(sf, fs, rec, delete_logs) ==
    [state |-> [global_counter |-> 0, session_counters |-> EmptyMap],
     files |-> IF delete_logs
               THEN unlink_all(fs, CsvPaths \cup {p \in BakPaths : fs[p].ex})
               ELSE fs]

\* clear_history(session_only=False, delete_logs): [state, files]
clear_global(sf, fs, rec, delete_logs) ==
    LET state == load_state(sf)
        inventory == Get(state, "session_counters", EmptyMap)
    IN [state |-> [global_counter |-> 0, session_counters |-> EmptyMap],
        files |-> IF delete_logs
                  THEN unlink_all(fs, {CsvPath(SharedStem)}
                                        \cup {CsvPath(tag) : tag \in DOMAIN inventory}
                                        \cup {p \in BakPaths : fs[p].ex})
                  ELSE fs]

\* LogPulse.clear_history
clear_history(sf, fs, rec, session_only, delete_logs) ==
    LET out == IF session_only THEN clear_session(sf, fs, rec, delete_logs)
               ELSE clear_global(sf, fs, rec, delete_logs)
    IN [file |-> save_state(out.state), files |-> out.files]

\* r.clear_history(session_only=True, delete_logs=delete_logs)
ClearSession(r, delete_logs) ==
    /\ recs[r].alive
    /\ IF load_raises(stateFile) # NoExc
       THEN /\ last' = Call("clear_session", r, NoExc, load_raises(stateFile))
            /\ UNCHANGED <<stateFile, files, built>>
       ELSE /\ LET out == clear_history(stateFile, files, recs[r], TRUE,
                                        delete_logs)
               IN /\ stateFile' = out.file
                  /\ files' = out.files
            /\ built' = [built EXCEPT !.tagged[recs[r].session_tag] = 0]
            /\ last' = Call("clear_session", r, NoExc, NoExc)
    /\ UNCHANGED <<recs, legacy>>

\* r.clear_history(session_only=False, delete_logs=delete_logs)
ClearGlobal(r, delete_logs) ==
    /\ recs[r].alive
    /\ IF load_raises(stateFile) # NoExc
       THEN /\ last' = Call("clear_global", r, NoExc, load_raises(stateFile))
            /\ UNCHANGED <<stateFile, files, built>>
       ELSE /\ LET out == clear_history(stateFile, files, recs[r], FALSE,
                                        delete_logs)
               IN /\ stateFile' = out.file
                  /\ files' = out.files
                  /\ last' = ClearCall(r, delete_logs,
                                       {p \in Paths : files[p].ex /\ ~out.files[p].ex})
            /\ built' = [NoneBuilt EXCEPT !.total = built.total]
    /\ UNCHANGED <<recs, legacy>>

(***************************************************************************)
(* The v0.1 recorder (src/src/LogPulse/main.py)                            *)
(***************************************************************************)
\* the storage_path arguments of the v0.1 recorder: its default
LegacyPaths == {CsvPath(SharedStem)}

LegacyRunId == "20240101_000000"

\* v0.1 _MeasureContext.__exit__
legacy_exit_record(rec, label, exc_type) ==
    [run_id |-> rec.run_id,
     label |-> label,
     status |-> IF exc_type = NoExc THEN "SUCCESS" ELSE "ERROR: " \o exc_type]

\* v0.1 LogPulse.save(format="csv")
legacy_save(fs, rec) ==
    IF rec.records = <<>> THEN [files |-> fs, records |-> rec.records]
    ELSE [files |-> to_csv(fs, rec.storage_path, rec.records,
                           ~fs[rec.storage_path].ex),
          records |-> <<>>]

\* v0.1: LogPulse(storage_path)
LegacyConstruct(path) ==
    /\ legacy' = [alive |-> TRUE, storage_path |-> path, run_id |-> LegacyRunId,
                  records |-> <<>>]
    /\ last' = Call("legacy_construct", "", NoExc, NoExc)
    /\ UNCHANGED <<stateFile, files, recs, built>>

\* v0.1: with logger.measure(label): <block>
LegacyMeasure(label, exc_type) ==
    /\ legacy.alive
    /\ legacy' = [legacy EXCEPT !.records =
                     Append(@, legacy_exit_record(legacy, label, exc_type))]
    /\ last' = Call("legacy_measure", "", exc_type, exc_type)
    /\ UNCHANGED <<stateFile, files, recs, built>>

\* v0.1: logger.save()
LegacySave ==
    /\ legacy.alive
    /\ LET out == legacy_save(files, legacy)
       IN /\ files' = out.files
          /\ legacy' = [legacy EXCEPT !.records = out.records]
    /\ last' = Call("legacy_save", "", NoExc, NoExc)
    /\ UNCHANGED <<stateFile, recs, built>>

\* the process ends and another starts: only the files of logs/ remain
Restart ==
    /\ recs' = [r \in Recs |-> NoRec]
    /\ legacy' = NoRec
    /\ last' = Call("restart", "", NoExc, NoExc)
    /\ UNCHANGED <<stateFile, files, built>>

Outcomes == ExcKinds \cup {NoExc}

(***************************************************************************)
(* Specifications.  Each is a calling program that uses some of the        *)
(* operations; the guards written in its next-state relation are the       *)
(* bounds of the model, not conditions of the code.                        *)
(***************************************************************************)

\* the counter state store: constructions, clears and restarts
NextIds ==
    \/ \E r \in Recs, t \in Tags, s \in BOOLEAN :
          built.total < MaxRuns /\ Construct(r, t, s)
    \/ \E r \in Recs, d \in BOOLEAN : ClearSession(r, d)
    \/ \E r \in Recs, d \in BOOLEAN : ClearGlobal(r, d)
    \/ Restart

SpecIds == Init /\ [][NextIds]_vars

\* measured regions: blocks and wrapped functions that complete or raise
NextMeasure ==
    \/ \E r \in Recs, t \in Tags, s \in BOOLEAN :
          built.total < MaxSessions /\ Construct(r, t, s)
    \/ \E r \in Recs, l \in Labels, e \in Outcomes :
          TotalRows < MaxRows /\ Measure(r, l, e)
    \/ \E r \in Recs, l \in Labels \cup {NoLabel}, f \in FuncNames, e \in Outcomes :
          TotalRows < MaxRows /\ Timeit(r, l, f, e)
    \/ \E r \in Recs : Save(r)

SpecMeasure == Init /\ [][NextMeasure]_vars

\* event storage: v0.2 and v0.1 recorders saving to the files of logs/
Next ==
    \/ \E r \in Recs, t \in Tags, s \in BOOLEAN :
          built.total < MaxSessions /\ (r = "s1" \/ recs["s1"].alive)
            /\ Construct(r, t, s)
    \/ \E r \in Recs, l \in Labels : TotalRows < MaxRows /\ Measure(r, l, NoExc)
    \/ \E r \in Recs : Save(r)
    \/ \E r \in Recs, d \in BOOLEAN : ClearSession(r, d)
    \/ \E p \in LegacyPaths : LegacyConstruct(p)
    \/ \E l \in Labels : TotalRows < MaxRows /\ LegacyMeasure(l, NoExc)
    \/ LegacySave

Spec == Init /\ [][Next]_vars

\* measures and saves of v0.2 and v0.1 recorders, no history being cleared
NextEvents ==
    \/ \E r \in Recs, t \in Tags, s \in BOOLEAN :
          built.total < MaxSessions /\ (r = "s1" \/ recs["s1"].alive)
            /\ Construct(r, t, s)
    \/ \E r \in Recs, l \in Labels : TotalRows < MaxRows /\ Measure(r, l, NoExc)
    \/ \E r \in Recs : Save(r)
    \/ \E p \in LegacyPaths : LegacyConstruct(p)
    \/ \E l \in Labels : TotalRows < MaxRows /\ LegacyMeasure(l, NoExc)
    \/ LegacySave

SpecEvents == Init /\ [][NextEvents]_vars

\* event storage where the migration step of save() may fail
NextFault ==
    \/ Next
    \/ \E r \in Recs, f \in {"read_csv", "rename"} : SaveFault(r, f)

SpecFault == Init /\ [][NextFault]_vars

(***************************************************************************)
(* The report reader (src/src/logpulse/viz.py)                             *)
(***************************************************************************)
\* the v0.1-style file test_legacy_migration_logic writes by hand: unlike the
\* v0.1 recorder's rows, its rows have a session_tag
FixtureCols == <<"run_id", "session_tag", "duration_sec">>

FixtureRunIds == {1, 2}

FixtureRows == [run_id : FixtureRunIds, session_tag : Tags]

Fixtures == UNION {[1..n -> FixtureRows] : n \in 1..MaxRows}

\* old_df.to_csv(csv_file, index=False)
WriteFixture(rows) ==
    /\ files' = [files EXCEPT ![CsvPath(SharedStem)] =
                    [ex |-> TRUE, lines |-> <<HeaderLine(FixtureCols)>> \o rows]]
    /\ last' = Call("write_fixture", "", NoExc, NoExc)
    /\ UNCHANGED <<stateFile, recs, legacy, built>>

\* df.groupby("session_tag").cumcount() + 1 at row i
cumcount1(rows, i) ==
    Cardinality({j \in 1..i : rows[j].session_tag = rows[i].session_tag})

\* df.sort_values("global_run_id"): insertion of row x into a sorted frame,
\* after the rows that are not greater
RECURSIVE insert_sorted(_, _)
insert_sorted(sorted, x) ==
    IF sorted = <<>> THEN <<x>>
    ELSE IF sorted[Len(sorted)].global_run_id <= x.global_run_id
         THEN Append(sorted, x)
         ELSE Append(insert_sorted(SubSeq(sorted, 1, Len(sorted) - 1), x),
                     sorted[Len(sorted)])

RECURSIVE sort_values(_)
sort_values(rows) ==
    IF rows = <<>> THEN <<>>
    ELSE insert_sorted(sort_values(SubSeq(rows, 1, Len(rows) - 1)),
                       rows[Len(rows)])

\* PulseVisualizer._load_and_filter, lines 21-22: the columns added to row i
\* of an old file; index is the frame's index, the position in the file
synthesize(rows, i) ==
    [index |-> i, global_run_id |-> rows[i].run_id,
     session_run_id |-> cumcount1(rows, i)] @@ rows[i]

\* PulseVisualizer._load_and_filter(tags): [raised, rows]; tags = {} is None
load_and_filter(f, tags) ==
    LET cols == Range(read_columns(f))
        rows == RowsOf(f)
        old == "run_id" \in cols /\ "session_run_id" \notin cols
        frame == IF old THEN [i \in DOMAIN rows |-> synthesize(rows, i)]
                 ELSE [i \in DOMAIN rows |-> [index |-> i] @@ rows[i]]
        picked == IF tags = {} THEN frame
                  ELSE SelectSeq(frame, LAMBDA x : x.session_tag \in tags)
    IN IF "session_tag" \notin cols /\ (old \/ tags # {})
       THEN [raised |-> "KeyError", rows |-> <<>>]
       ELSE [raised |-> NoExc, rows |-> sort_values(picked)]

\* a _load_and_filter call that returned or raised, with its arguments
ReportCall(path, tags, out) ==
    [op |-> "report", r |-> "", thrown |-> NoExc, raised |-> out.raised,
     path |-> path, tags |-> tags, rows |-> out.rows]

\* PulseVisualizer(path)._load_and_filter(tags)
Report(path, tags) ==
    /\ files[path].ex
    /\ last' = ReportCall(path, tags, load_and_filter(files[path], tags))
    /\ UNCHANGED <<stateFile, files, recs, legacy, built>>

\* the tags arguments of the reader: None and one tag
TagFilters == {{}} \cup {{t} : t \in Tags}

\* the file at path is absent or was written by v0.1 recorders only
OwnedByLegacy(path) ==
    files[path].ex =>
        files[path].lines # <<>> /\ files[path].lines[1] = HeaderLine(LegacyCols)

\* the reader over files written by v0.1 recorders and by hand in the v0.1
\* style; a v0.1 recorder appends to its own files only
NextReport ==
    \/ \E rows \in Fixtures : WriteFixture(rows)
    \/ \E p \in LegacyPaths : LegacyConstruct(p)
    \/ \E l \in Labels : TotalRows < MaxRows /\ LegacyMeasure(l, NoExc)
    \/ legacy.alive /\ OwnedByLegacy(legacy.storage_path) /\ LegacySave
    \/ \E p \in Paths, tags \in TagFilters : Report(p, tags)

SpecReport == Init /\ [][NextReport]_vars

\* recorders that claim, record, save and clear, with clears of both scopes
NextOps ==
    \/ \E r \in Recs, t \in Tags, s \in BOOLEAN :
          built.total < MaxSessions /\ (r = "s1" \/ recs["s1"].alive)
            /\ Construct(r, t, s)
    \/ \E r \in Recs, l \in Labels : TotalRows < MaxRows /\ Measure(r, l, NoExc)
    \/ \E r \in Recs : Save(r)
    \/ \E r \in Recs, d \in BOOLEAN : ClearSession(r, d)
    \/ \E r \in Recs, d \in BOOLEAN : ClearGlobal(r, d)

SpecOps == Init /\ [][NextOps]_vars

\* the handle of a program that holds one recorder at a time
Solo == "s1"

\* every operation of a recorder, on files that v0.1 recorders wrote as well
NextSolo ==
    \/ \E t \in Tags, s \in BOOLEAN :
          built.total < MaxSessions /\ Construct(Solo, t, s)
    \/ \E l \in Labels : TotalRows < MaxRows /\ Measure(Solo, l, NoExc)
    \/ \E l \in Labels \cup {NoLabel}, f \in FuncNames :
          TotalRows < MaxRows /\ Timeit(Solo, l, f, NoExc)
    \/ GetSummary(Solo)
    \/ Save(Solo)
    \/ \E d \in BOOLEAN : ClearSession(Solo, d)
    \/ \E d \in BOOLEAN : ClearGlobal(Solo, d)
    \/ \E p \in LegacyPaths : LegacyConstruct(p)
    \/ \E l \in Labels : TotalRows < MaxRows /\ LegacyMeasure(l, NoExc)
    \/ LegacySave

SpecSolo == Init /\ [][NextSolo]_vars

\* a construction running on the thread of handle r, between the _load_state
\* and the _save_state of _get_next_run_ids
Pending(rec) == "state" \in DOMAIN rec

InFlight == Cardinality({r \in Recs : Pending(recs[r])})

\* LogPulse.__init__ on the thread of r, up to line 57: the state is loaded
ConstructLoad(r, session_tag, split_files) ==
    /\ ~Pending(recs[r])
    /\ init_raises(stateFile) = NoExc
    /\ recs' = [recs EXCEPT ![r] =
                    [alive |-> FALSE,
                     session_tag |-> session_tag,
                     split_files |-> split_files,
                     state |-> load_state(stateFile)]]
    /\ UNCHANGED <<stateFile, files, legacy, built, last>>

\* LogPulse.__init__ on the thread of r, lines 58-65 and the return: the
\* increments of the state it loaded are written and the instance is bound
ConstructPersist(r) ==
    /\ Pending(recs[r])
    /\ LET ids == next_run_ids(recs[r].state, recs[r].session_tag)
       IN /\ stateFile' = ids.file
          /\ recs' = [recs EXCEPT ![r] =
                        instance(recs[r].session_tag, recs[r].split_files, ids,
                                 built.total + 1)]
    /\ built' = [total |-> built.total + 1,
                  all |-> built.all + 1,
                  tagged |-> [built.tagged EXCEPT ![recs[r].session_tag] = @ + 1]]
    /\ last' = Call("construct", r, NoExc, NoExc)
    /\ UNCHANGED <<files, legacy>>

\* recorders constructed on two threads of one process: nothing in
\* _get_next_run_ids orders the load of one against the save of the other
NextThreads ==
    \/ \E r \in Recs, t \in Tags, s \in BOOLEAN :
          built.total + InFlight < MaxRuns /\ ConstructLoad(r, t, s)
    \/ \E r \in Recs : ConstructPersist(r)

SpecThreads == Init /\ [][NextThreads]_vars

\* .logpulse_state.json as _load_state can find it: left by v0.1, or written
\* by something other than the recorder
InitState ==
    /\ stateFile \in StateFiles
    /\ files = [p \in Paths |-> Absent]
    /\ recs = [r \in Recs |-> NoRec]
    /\ legacy = NoRec
    /\ built = NoneBuilt
    /\ last = NoCall

\* the state file is replaced from outside the recorder between two calls
StateFileReplaced(sf) ==
    /\ stateFile' = sf
    /\ last' = Call("state_file_replaced", "", NoExc, NoExc)
    /\ UNCHANGED <<files, recs, legacy, built>>

\* the counter store over every content of the state file
NextState ==
    \/ \E r \in Recs, t \in Tags, s \in BOOLEAN :
          built.total < MaxSessions /\ Construct(r, t, s)
    \/ \E r \in Recs, d \in BOOLEAN : ClearSession(r, d)
    \/ \E r \in Recs, d \in BOOLEAN : ClearGlobal(r, d)
    \/ \E sf \in StateFiles : StateFileReplaced(sf)

SpecState == InitState /\ [][NextState]_vars

(***************************************************************************)
(* Claims about the run ids (SpecIds)                                      *)
(***************************************************************************)
Constructed == last.op = "construct" /\ last.raised = NoExc

\* C1: the i-th recorder constructed since the counter state was empty (at the
\* start, or since the last global clear) claims global_run_id = i, whatever
\* the session tags, whether the earlier recorders are still held by the
\* program or were dropped by a restart.
C1_GlobalIdInConstructionOrder ==
    Constructed => recs[last.r].global_run_id = built.all

\* C1, witness: the third construction claims 3 when the program holds none of
\* the recorders that claimed 1 and 2 any more.
C1_ThirdAfterRestart ==
    /\ Constructed
    /\ built.total = 3
    /\ recs[last.r].global_run_id = 3
    /\ \A r \in Recs \ {last.r} : ~recs[r].alive

\* C2: the j-th recorder constructed with a tag since the counter of that tag
\* was empty claims session_run_id = j, however many recorders of other tags
\* were constructed in between.
C2_SessionIdPerTag ==
    Constructed =>
        recs[last.r].session_run_id = built.tagged[recs[last.r].session_tag]

\* C2, witness: the second recorder of a tag claims session_run_id = 2 as the
\* third construction overall.
C2_SecondOfTagIsThirdOverall ==
    /\ Constructed
    /\ recs[last.r].session_run_id = 2
    /\ built.all = 3

\* C3: after clear_history(session_only=False) the state file holds
\* global_counter = 0 and no session counter, and the first construction after
\* it claims global_run_id = 1 and session_run_id = 1.
C3_GlobalClearResets ==
    /\ last.op = "clear_global" =>
          stateFile = [kind |-> "current", global_counter |-> 0,
                       session_counters |-> EmptyMap]
    /\ (Constructed /\ built.all = 1) =>
          /\ recs[last.r].global_run_id = 1
          /\ recs[last.r].session_run_id = 1

\* C3, witness: a recorder constructed after a global clear that followed two
\* constructions.
C3_ConstructedAfterGlobalClear ==
    /\ Constructed
    /\ built.total = 3
    /\ built.all = 1

(***************************************************************************)
(* Claims about event storage (Spec, SpecFault, SpecMeasure)               *)
(***************************************************************************)
Saved == last.op = "save"

BakOf(path) == [stem |-> path.stem, ext |-> "v1.bak"]

\* a file under a v0.1 header
LegacyFile(f) == f.ex /\ f.lines # <<>> /\ f.lines[1] = HeaderLine(LegacyCols)

\* a file under a v0.2 header
CurrentFile(f) == f.ex /\ f.lines # <<>> /\ f.lines[1] = HeaderLine(CurrentCols)

LegacyRows(f) == SelectSeq(f.lines, IsLegacyRow)

CurrentRows(f) == SelectSeq(f.lines, IsCurrentRow)

Homogeneous(f) ==
    \/ ~f.ex
    \/ LegacyFile(f) /\ CurrentRows(f) = <<>>
    \/ CurrentFile(f) /\ LegacyRows(f) = <<>>

OneHeader(f) ==
    f.ex => /\ f.lines # <<>>
            /\ IsHeader(f.lines[1])
            /\ \A i \in 2..Len(f.lines) : ~IsHeader(f.lines[i])

RECURSIVE ArchivedLegacyRows(_, _)
ArchivedLegacyRows(fs, S) ==
    IF S = {} THEN 0
    ELSE LET p == CHOOSE q \in S : TRUE
         IN Len(LegacyRows(fs[p])) + ArchivedLegacyRows(fs, S \ {p})

HoldsOtherTag(f, tag) ==
    \E i \in 1..Len(f.lines) :
        IsCurrentRow(f.lines[i]) /\ f.lines[i].session_tag # tag

\* C4: a scoped clear by a recorder of tag t removes the entry of t from
\* session_counters and nothing else of the counter state, and leaves every
\* file that holds events of other tags unchanged, in either storage mode.
C4_ScopedClearLeavesOtherTags ==
    [][last'.op = "clear_session" =>
         LET tag == recs[last'.r].session_tag
             before == load_state(stateFile)
             after == load_state(stateFile')
         IN /\ after.session_counters = Del(before.session_counters, tag)
            /\ after.global_counter = before.global_counter
            /\ \A p \in Paths :
                  HoldsOtherTag(files[p], tag) => files'[p] = files[p]]_vars

\* C5: save() of a non-empty buffer onto a legacy-schema file leaves the old
\* file, whole, as the archive <name>.v1.bak, touches no other archive, and
\* leaves at the path a file of the current header followed by exactly the
\* saved records.
C5_LegacyFileArchivedOnSave ==
    [][(/\ last'.op = "save"
        /\ recs[last'.r].records # <<>>
        /\ LegacyFile(files[recs[last'.r].storage_path])) =>
         LET rec == recs[last'.r]
             path == rec.storage_path
         IN /\ files'[BakOf(path)] = files[path]
            /\ \A q \in BakPaths \ {BakOf(path)} : files'[q] = files[q]
            /\ files'[path] =
                  [ex |-> TRUE, lines |-> <<HeaderLine(CurrentCols)>> \o rec.records]
            /\ LegacyRows(files'[path]) = <<>>]_vars

\* C5, witness: after a save the shared file is a current-schema file and its
\* archive holds the legacy rows.
C5_ArchiveBesideFreshFile ==
    /\ Saved
    /\ LegacyFile(files[BakOf(CsvPath(SharedStem))])
    /\ LegacyRows(files[BakOf(CsvPath(SharedStem))]) # <<>>
    /\ CurrentFile(files[CsvPath(SharedStem)])
    /\ LegacyRows(files[CsvPath(SharedStem)]) = <<>>
    /\ recs[last.r].storage_path = CsvPath(SharedStem)

\* C6: a save() of a v0.2 recorder, whatever the outcome of its migration
\* step, leaves every schema-homogeneous file schema-homogeneous.
C6_SaveKeepsFilesHomogeneous ==
    [][last'.op \in {"save", "save_fault"} =>
         \A p \in Paths : Homogeneous(files[p]) => Homogeneous(files'[p])]_vars

\* C7: a save() loses no archived legacy row: the legacy rows in the archival
\* files after it are those before it and those of the legacy file it migrated.
C7_MigrationKeepsLegacyRows ==
    [][last'.op = "save" =>
         LET rec == recs[last'.r]
             migrated == IF rec.records # <<>> /\ LegacyFile(files[rec.storage_path])
                         THEN Len(LegacyRows(files[rec.storage_path])) ELSE 0
         IN ArchivedLegacyRows(files', BakPaths)
              >= ArchivedLegacyRows(files, BakPaths) + migrated]_vars

\* C8: the exit of a measured region, of a with-block or of a timeit-wrapped
\* call, appends exactly one record to the buffer of its recorder, of status
\* SUCCESS if the block completed and ERROR: <kind> if it raised, and the
\* caller sees the exception the block raised.
C8_ExitRecordsOnceAndPropagates ==
    [][last'.op \in {"measure", "timeit"} =>
         LET r == last'.r
             n == Len(recs[r].records)
         IN /\ Len(recs'[r].records) = n + 1
            /\ SubSeq(recs'[r].records, 1, n) = recs[r].records
            /\ recs'[r].records[n + 1].status =
                  (IF last'.thrown = NoExc THEN "SUCCESS"
                   ELSE "ERROR: " \o last'.thrown)
            /\ last'.raised = last'.thrown
            /\ \A q \in Recs \ {r} : recs'[q] = recs[q]]_vars

\* C8, witness: a timeit-wrapped call raised ValueError, which reached the
\* caller, and the record of the call is in the buffer.
C8_WrappedCallRaised ==
    /\ last.op = "timeit"
    /\ last.thrown = "ValueError"
    /\ last.raised = "ValueError"
    /\ recs[last.r].records # <<>>
    /\ recs[last.r].records[Len(recs[last.r].records)].status = "ERROR: ValueError"

\* C9: save() of a non-empty buffer appends the buffered records, in order, to
\* the target file, with a header before them exactly when no file is at the
\* path at the time of the append (it was absent or has just been archived),
\* and empties the buffer; every file has one header, its first line.
C9_SaveAppendsUnderOneHeader ==
    [][(last'.op = "save" /\ recs[last'.r].records # <<>>) =>
         LET rec == recs[last'.r]
             path == rec.storage_path
         IN /\ recs'[last'.r].records = <<>>
            /\ files'[path].ex
            /\ files'[path].lines =
                  IF files[path].ex /\ ~LegacyFile(files[path])
                  THEN files[path].lines \o rec.records
                  ELSE <<HeaderLine(CurrentCols)>> \o rec.records
            /\ \A q \in Paths : OneHeader(files'[q])]_vars

\* C9, witness: the shared file holds the rows of two recorders, saved by two
\* calls, under one header.
C9_TwoRecordersOneHeader ==
    /\ Saved
    /\ OneHeader(files[CsvPath(SharedStem)])
    /\ \E i, j \in 2..Len(files[CsvPath(SharedStem)].lines) :
          /\ IsCurrentRow(files[CsvPath(SharedStem)].lines[i])
          /\ IsCurrentRow(files[CsvPath(SharedStem)].lines[j])
          /\ files[CsvPath(SharedStem)].lines[i].global_run_id
                # files[CsvPath(SharedStem)].lines[j].global_run_id

\* C10: save() with an empty buffer changes nothing: not the files (no
\* migration, no header), not the counter state, not a buffer.
C10_EmptySaveIsNoOp ==
    [][(last'.op = "save" /\ recs[last'.r].records = <<>>) =>
         /\ files' = files
         /\ stateFile' = stateFile
         /\ recs' = recs
         /\ legacy' = legacy]_vars

\* C10, witness: save() of an empty buffer returned and the legacy-schema file
\* at the path of the recorder is still in place.
C10_EmptySaveOnLegacyFile ==
    /\ Saved
    /\ recs[last.r].records = <<>>
    /\ LegacyFile(files[recs[last.r].storage_path])

(***************************************************************************)
(* Claims about the counter state file (SpecState)                         *)
(***************************************************************************)
\* the persisted counters, as _load_state reads them
GlobalCounter(sf) == load_state(sf).global_counter

SessionCounter(sf, tag) == Get(load_state(sf).session_counters, tag, 0)

\* the step is a construction, a scoped clear by r, a global clear
IsConstruct ==
    /\ last'.op = "construct"
    /\ \E t \in Tags, s \in BOOLEAN : Construct(last'.r, t, s)

IsClearSession(r) ==
    /\ last'.op = "clear_session"
    /\ last'.r = r
    /\ \E d \in BOOLEAN : ClearSession(r, d)

IsClearGlobal ==
    /\ last'.op = "clear_global"
    /\ \E d \in BOOLEAN : ClearGlobal(last'.r, d)

\* C11: whatever the state file holds (absent, unreadable, not JSON, JSON of
\* another structure), a construction and a clear_history return without
\* raising.
C11_LoadNeverFailsCaller ==
    last.op \in {"construct", "clear_session", "clear_global"} =>
        last.raised = NoExc

\* C16: a state file in the v0.1 layout with last_run_id = n loads as
\* global_counter = n with no session counter, and a construction that finds it
\* claims global_run_id = n + 1 and session_run_id = 1 and leaves the file in
\* the current layout with these counters.
C16_LegacyStateMigratedOnClaim ==
    [][(stateFile.kind = "legacy" /\ IsConstruct)
       => LET n == Get(stateFile, "last_run_id", 0)
          IN /\ load_state(stateFile) =
                   [global_counter |-> n, session_counters |-> EmptyMap]
             /\ last'.raised = NoExc
             /\ recs'[last'.r].global_run_id = n + 1
             /\ recs'[last'.r].session_run_id = 1
             /\ stateFile' =
                   [kind |-> "current", global_counter |-> n + 1,
                    session_counters |->
                        Put(EmptyMap, recs'[last'.r].session_tag, 1)]]_vars

\* C16, witness: the first construction of the run found last_run_id = 2 and
\* claimed global_run_id = 3.
C16_FirstClaimAfterLegacyState ==
    /\ Constructed
    /\ built.total = 1
    /\ recs[last.r].global_run_id = 3
    /\ recs[last.r].session_run_id = 1
    /\ stateFile.kind = "current"

(***************************************************************************)
(* Claims about constructions on two threads (SpecThreads)                 *)
(***************************************************************************)
\* C12: constructions running on different threads of one process lose no
\* update: once none is in flight the persisted global_counter counts every
\* construction made, and no two recorders hold the same global_run_id.
C12_NoLostUpdate ==
    InFlight = 0 =>
        /\ load_state(stateFile).global_counter = built.total
        /\ \A r1, r2 \in Recs :
              (r1 # r2 /\ recs[r1].alive /\ recs[r2].alive)
                  => recs[r1].global_run_id # recs[r2].global_run_id

(***************************************************************************)
(* Claims about every operation of the recorder (SpecOps, SpecSolo)        *)
(***************************************************************************)
\* C13 as stated: over constructions, measures, saves and clears of both
\* scopes the persisted global_counter and every session counter never
\* decrease, and a construction adds exactly 1 to global_counter and to the
\* counter of its tag.
C13_CountersNeverDecrease ==
    [][/\ GlobalCounter(stateFile') >= GlobalCounter(stateFile)
       /\ \A tag \in Tags :
             SessionCounter(stateFile', tag) >= SessionCounter(stateFile, tag)
       /\ IsConstruct =>
             /\ GlobalCounter(stateFile') = GlobalCounter(stateFile) + 1
             /\ SessionCounter(stateFile', recs'[last'.r].session_tag) =
                  SessionCounter(stateFile, recs'[last'.r].session_tag) + 1]_vars

\* C13, amended: a construction adds exactly 1 to global_counter and to the
\* counter of its tag and leaves the other tags' counters; a scoped clear
\* removes the counter of the clearing recorder's tag and leaves the rest; a
\* global clear sets global_counter to 0 and removes every session counter;
\* every other operation leaves the state file as it is.
C13_CountersMoveByClaimAndClear ==
    [][/\ IsConstruct =>
             /\ GlobalCounter(stateFile') = GlobalCounter(stateFile) + 1
             /\ \A tag \in Tags :
                   SessionCounter(stateFile', tag) =
                     SessionCounter(stateFile, tag)
                       + (IF tag = recs'[last'.r].session_tag THEN 1 ELSE 0)
       /\ \A r \in Recs : IsClearSession(r) =>
             /\ GlobalCounter(stateFile') = GlobalCounter(stateFile)
             /\ \A tag \in Tags :
                   SessionCounter(stateFile', tag) =
                     (IF tag = recs[r].session_tag THEN 0
                      ELSE SessionCounter(stateFile, tag))
       /\ IsClearGlobal =>
             /\ GlobalCounter(stateFile') = 0
             /\ \A tag \in Tags : SessionCounter(stateFile', tag) = 0
       /\ ~(IsConstruct \/ IsClearGlobal \/ \E r \in Recs : IsClearSession(r))
             => stateFile' = stateFile]_vars

\* C13, witness: a scoped clear has removed the counter of its tag while the
\* global counter stands at 2.
C13_ScopedClearAfterTwoClaims ==
    /\ last.op = "clear_session"
    /\ GlobalCounter(stateFile) = 2
    /\ SessionCounter(stateFile, recs[last.r].session_tag) = 0
    /\ \E tag \in Tags : SessionCounter(stateFile, tag) = 1

\* the v0.2 event records there are: in the files and in the buffers
FileRows ==
    UNION {Range(CurrentRows(files[p])) : p \in {q \in Paths : files[q].ex}}

BufferRows == UNION {Range(recs[r].records) : r \in {q \in Recs : recs[q].alive}}

AllRows == FileRows \cup BufferRows

\* the instances built before the most recent global clear have uid <= Epoch
Epoch == built.total - built.all

\* C14 as stated: after any constructions, saves and clears no two recorder
\* instances hold the same global_run_id and no two rows recorded by different
\* instances carry the same global_run_id.
C14_GlobalIdUnique ==
    /\ \A r1, r2 \in Recs :
          (r1 # r2 /\ recs[r1].alive /\ recs[r2].alive)
              => recs[r1].global_run_id # recs[r2].global_run_id
    /\ \A x, y \in AllRows :
          x.uid # y.uid => x.global_run_id # y.global_run_id

\* C14, amended: among the instances constructed since the most recent global
\* clear (since the start, where there was none) no two hold the same
\* global_run_id, and no two rows recorded by different such instances carry
\* the same global_run_id.
C14_GlobalIdUniqueSinceGlobalClear ==
    /\ \A r1, r2 \in Recs :
          (/\ r1 # r2 /\ recs[r1].alive /\ recs[r2].alive
           /\ recs[r1].uid > Epoch /\ recs[r2].uid > Epoch)
              => recs[r1].global_run_id # recs[r2].global_run_id
    /\ \A x, y \in AllRows :
          (x.uid # y.uid /\ x.uid > Epoch /\ y.uid > Epoch)
              => x.global_run_id # y.global_run_id

\* C14, witness: one file holds rows of two instances, both constructed after
\* the most recent global clear.
C14_TwoInstancesInOneFile ==
    \E p \in CsvPaths : \E x, y \in Range(CurrentRows(files[p])) :
        x.uid # y.uid /\ x.uid > Epoch /\ y.uid > Epoch

\* the files clear_history(session_only=False, delete_logs=True) is to delete,
\* given the state file it finds
Doomed(sf) ==
    {CsvPath(SharedStem)}
      \cup {CsvPath(tag) : tag \in DOMAIN load_state(sf).session_counters}
      \cup BakPaths

\* C15: a global clear with delete_logs=True deletes perf_metrics.csv, the
\* <tag>.csv of every tag in the session_counters it loaded and every *.v1.bak,
\* leaves every other file as it was, and has written the zero state when it
\* returns.
C15_GlobalClearDeletesInventory ==
    [][(last'.op = "clear_global" /\ ClearGlobal(last'.r, TRUE)) =>
          /\ files' = [p \in Paths |->
                         IF p \in Doomed(stateFile) THEN Absent ELSE files[p]]
          /\ stateFile' = [kind |-> "current", global_counter |-> 0,
                           session_counters |-> EmptyMap]]_vars

\* C15, witness: a global clear with delete_logs=True has unlinked the shared
\* file, a per-tag file and an archive.
C15_EveryKindOfFileDeleted ==
    /\ last.op = "clear_global"
    /\ last.raised = NoExc
    /\ last.delete_logs
    /\ CsvPath(SharedStem) \in last.unlinked
    /\ \E tag \in Tags : CsvPath(tag) \in last.unlinked
    /\ \E p \in BakPaths : p \in last.unlinked

\* the step is a measure, a call of a wrapped function or a get_summary
IsRecording ==
    \/ last'.op = "measure" /\ \E l \in Labels : Measure(last'.r, l, NoExc)
    \/ /\ last'.op = "timeit"
       /\ \E l \in Labels \cup {NoLabel}, f \in FuncNames :
             Timeit(last'.r, l, f, NoExc)
    \/ last'.op = "get_summary" /\ GetSummary(last'.r)

\* the step is a save of a v0.2 or of a v0.1 recorder
IsSave ==
    \/ last'.op = "save" /\ Save(last'.r)
    \/ last'.op = "legacy_save" /\ LegacySave

\* the step is a clear_history with this delete_logs, of either scope
IsClear(delete_logs) ==
    \/ last'.op = "clear_session" /\ ClearSession(last'.r, delete_logs)
    \/ last'.op = "clear_global" /\ ClearGlobal(last'.r, delete_logs)

\* C17 as stated: a step that changes an event file or an archive is a save;
\* construction, measure, timeit, get_summary and clear_history change none.
C17_OnlySaveTouchesFiles ==
    [][files' # files => IsSave]_vars

\* C17, amended: construction, measure, timeit, get_summary and a
\* clear_history with delete_logs=False leave every event file and archive as
\* it was; a step that changes one is a save, or a clear_history with
\* delete_logs=True, which only removes files.
C17_OnlySaveAndDeletingClearTouchFiles ==
    [][files' # files =>
          /\ ~(IsConstruct \/ IsRecording \/ IsClear(FALSE))
          /\ \/ IsSave
             \/ /\ IsClear(TRUE)
                /\ \A p \in Paths : files'[p] = files[p] \/ files'[p] = Absent]_vars

\* C17, witness: a clear_history with delete_logs=True has removed a file.
C17_ClearRemovedAFile ==
    /\ last.op = "clear_global"
    /\ last.raised = NoExc
    /\ last.unlinked # {}

\* the ids a row carries are those of the instance rec
CarriesIdsOf(row, rec) ==
    /\ row.global_run_id = rec.global_run_id
    /\ row.session_run_id = rec.session_run_id
    /\ row.session_tag = rec.session_tag

\* C18: every event record of an instance, buffered or saved, carries the
\* global_run_id, session_run_id and session_tag the instance claimed at its
\* construction: the rows of one instance agree on them, the instance keeps
\* them for its lifetime, and saved rows are not rewritten, whatever other
\* recorders are constructed and whatever history is cleared.
C18_RowsCarryClaimedIds ==
    [][LET saved == FileRows'
           rows == saved \cup BufferRows'
       IN /\ \A r \in Recs : recs'[r].alive =>
                /\ \A row \in Range(recs'[r].records) :
                      row.uid = recs'[r].uid /\ CarriesIdsOf(row, recs'[r])
                /\ \A row \in saved :
                      row.uid = recs'[r].uid => CarriesIdsOf(row, recs'[r])
          /\ \A x, y \in rows : x.uid = y.uid => CarriesIdsOf(x, y)
          /\ \A r \in Recs :
                (recs[r].alive /\ recs'[r].alive /\ recs'[r].uid = recs[r].uid)
                    => CarriesIdsOf(recs'[r], recs[r])
          /\ files' # files => saved \subseteq FileRows \cup BufferRows]_vars

\* C18, witness: rows of a first recorder are in a file, and since then a
\* session counter was cleared and a second recorder was constructed.
C18_SavedRowsOutliveClearAndClaim ==
    /\ Constructed
    /\ built.total = 2
    /\ built.tagged[recs[last.r].session_tag] = 1
    /\ \E row \in FileRows :
          row.uid = 1 /\ row.session_tag = recs[last.r].session_tag
                      /\ row.session_run_id = recs[last.r].session_run_id

\* C20: once a global clear with delete_logs=True has returned no event
\* artifact remains: no shared file, no per-tag file and no archive.
C20_GlobalClearLeavesNoArtifact ==
    (last.op = "clear_global" /\ last.raised = NoExc /\ last.delete_logs)
        => \A p \in Paths : ~files[p].ex

(***************************************************************************)
(* Claims about the report reader (SpecReport)                             *)
(***************************************************************************)
\* a file in the v0.1 schema: a run_id column and no session_run_id column
OldSchema(f) ==
    /\ f.ex /\ f.lines # <<>> /\ IsHeader(f.lines[1])
    /\ "run_id" \in Range(f.lines[1].cols)
    /\ "session_run_id" \notin Range(f.lines[1].cols)

\* C19: the reader, given any file in the v0.1 schema (those the v0.1
\* recorder wrote included) and no tag filter, presents every row of it with
\* global_run_id = run_id and session_run_id = its 1-based position among the
\* rows of its session_tag in file order.
C19_ReaderSynthesizesIds ==
    (last.op = "report" /\ last.tags = {} /\ OldSchema(files[last.path]))
        => LET rows == RowsOf(files[last.path])
           IN /\ last.raised = NoExc
              /\ {x.index : x \in Range(last.rows)} = DOMAIN rows
              /\ \A x \in Range(last.rows) :
                    /\ x.global_run_id = rows[x.index].run_id
                    /\ x.session_run_id =
                         Cardinality({j \in 1..x.index :
                             rows[j].session_tag = rows[x.index].session_tag})

(***************************************************************************)
(* Claims about the events of the recorders (SpecEvents)                   *)
(***************************************************************************)
\* the step is a clear_history that deleted a file
IsDeletingClear ==
    last'.op \in {"clear_session", "clear_global"} /\ files' # files

\* the rows a save step moves to the file at path p
Flushed(p) ==
    IF last'.op = "save" /\ p = recs[last'.r].storage_path
    THEN recs[last'.r].records ELSE <<>>

\* C21: over measures and saves of any recorders, sharing a file or not, and
\* every other step that is not a file-deleting clear, no event is lost,
\* doubled or held in two places: a measure puts one event at the end of its
\* recorder's buffer and nowhere else; a save puts the buffer, in its order,
\* at the end of the events of the recorder's target file and empties the
\* buffer; every other buffer and the events of every other file stay as
\* they are, in their order.
C21_EventsConserved ==
    [][~IsDeletingClear =>
          /\ \/ /\ files' = files
                /\ last'.op = "save" => recs[last'.r].records = <<>>
             \/ \A p \in Paths :
                   CurrentRows(files'[p]) = CurrentRows(files[p]) \o Flushed(p)
          /\ \A r \in Recs :
                (recs[r].alive /\ recs'[r].alive /\ recs'[r].uid = recs[r].uid)
                  => IF last'.r = r /\ last'.op = "save"
                     THEN recs'[r].records = <<>>
                     ELSE IF last'.r = r /\ last'.op \in {"measure", "timeit"}
                     THEN /\ Len(recs'[r].records) = Len(recs[r].records) + 1
                          /\ SubSeq(recs'[r].records, 1, Len(recs[r].records))
                               = recs[r].records
                          /\ recs'[r].records[Len(recs'[r].records)].uid
                               = recs[r].uid
                     ELSE recs'[r].records = recs[r].records]_vars

\* C21, witness: a save has put the event of its recorder into a file that
\* holds an event of another recorder, and its buffer is empty.
C21_SavedIntoSharedFile ==
    /\ last.op = "save"
    /\ recs[last.r].records = <<>>
    /\ \E x, y \in Range(CurrentRows(files[recs[last.r].storage_path])) :
          x.uid = recs[last.r].uid /\ y.uid # x.uid

(***************************************************************************)
(* Claims about the counters from any state file (SpecState)               *)
(***************************************************************************)
RECURSIVE SumOver(_, _)
SumOver(f, S) ==
    IF S = {} THEN 0
    ELSE LET k == CHOOSE q \in S : TRUE IN f[k] + SumOver(f, S \ {k})

\* C22: whatever the state file held at the start (nothing, no file, text
\* that is not JSON, the v0.1 layout, an object without session_counters),
\* after any constructions, scoped clears and global clears the
\* global_counter a load returns is at least the sum of the session counters,
\* and every session counter there is is at least 1.
C22_GlobalCounterCoversSessions ==
    load_raises(stateFile) = NoExc =>
        LET state == load_state(stateFile)
            session_counters == Get(state, "session_counters", EmptyMap)
        IN /\ state.global_counter
                >= SumOver(session_counters, DOMAIN session_counters)
           /\ \A tag \in DOMAIN session_counters : session_counters[tag] >= 1

\* C22, witness: from a v0.1 state file two recorders of different tags were
\* constructed and one of them cleared its session: the global counter is
\* above the one session counter left.
C22_LegacyStartThenScopedClear ==
    /\ last.op = "clear_session"
    /\ last.raised = NoExc
    /\ stateFile.kind = "current"
    /\ built.total = 2
    /\ stateFile.global_counter = 4
    /\ Cardinality(DOMAIN stateFile.session_counters) = 1

(***************************************************************************)
(* Claims about the fragmentation notice (SpecState, SpecSolo)             *)
(***************************************************************************)
\* C23: every construction returns without raising, prints the fragmentation
\* notice exactly when the state file holds a session counter above 0 for
\* its tag and no file exists at its storage path, and, printed or not,
\* claims global counter + 1 and session counter + 1 and leaves exactly
\* these two increments in the state file.
C23_NoticeIsAdvisory ==
    [][last'.op = "construct" =>
          /\ last'.raised = NoExc
          /\ LET rec == recs'[last'.r]
                 tag == rec.session_tag
             IN /\ last'.notice = (/\ SessionCounter(stateFile, tag) > 0
                                   /\ ~files[rec.storage_path].ex)
                /\ rec.global_run_id = GlobalCounter(stateFile) + 1
                /\ rec.session_run_id = SessionCounter(stateFile, tag) + 1
                /\ GlobalCounter(stateFile') = GlobalCounter(stateFile) + 1
                /\ \A t \in Tags :
                      SessionCounter(stateFile', t)
                        = SessionCounter(stateFile, t)
                            + (IF t = tag THEN 1 ELSE 0)]_vars

\* a construction that printed the notice and one, of a tag with history,
\* that did not because its file was there
C23_NoticePrinted == Constructed /\ last.notice

C23_NoticeWithheldByFile ==
    /\ Constructed
    /\ ~last.notice
    /\ recs[last.r].session_run_id > 1

=============================================================================
